---- MODULE Spec2Model ----
(***************************************************************************)
(* The generic trie of trie.go (type Trie[T], node[T]): Add, Remove, Find, *)
(* HasKeysWithPrefix, Keys, PrefixSearch, FuzzySearch.                     *)
(*                                                                         *)
(* A string is the sequence of its runes (code points), a rune an integer. *)
(* A *node[T] is modelled as the address of the node: the sequence of map  *)
(* keys that leads from the root to it.  The heap `nodes` maps the address *)
(* of every node reachable from t.root to the fields of the node; a node   *)
(* that Remove detaches leaves the heap, and the root that Remove creates  *)
(* takes the address of the root it replaces.  A                           *)
(* uint64 mask is the set of the positions of its 1-bits: | is \cup,       *)
(* & is \cap and m ^ m is {}.                                              *)
(***************************************************************************)
EXTENDS Integers, Sequences, FiniteSets, TLC

VARIABLES nodes,     \* the heap: address |-> fields of the node[T] (trie.go:253-263)
          root,      \* Trie.root (trie.go:267)
          size,      \* Trie.size (trie.go:268)
          added,     \* history: the keys Add has been called with so far
          calls,     \* history: number of calls made so far
          pc,        \* where each concurrent caller is in its call
          op,        \* the call each concurrent caller is making
          wmu,       \* Trie.mu (trie.go:266): the writer that has announced
                     \* itself and not yet unlocked (0: none)
          readers    \* Trie.mu: number of read locks held

trievars == <<nodes, root, size, added>>
lockvars == <<pc, op, wmu, readers>>
vars == <<nodes, root, size, added, calls, pc, op, wmu, readers>>

(* Bounds of the model. *)
MaxLen == 2       \* every string over Alphabet up to this length is a key
MaxCalls == 3     \* number of calls in a run
MaxPat == 2       \* every string up to this length is a pattern / prefix
NumCallers == 2   \* concurrent callers

nul == 0

(* Keys are strings over runes other than nul, which the trie reserves for *)
(* the terminal entry of a key.  'a' and 'b' have a bit of their own in a   *)
(* mask; '/' lies below 'a' and the CJK runes U+82F9, U+679C far above      *)
(* 'a'+63.                                                                  *)
Alphabet == {97, 98, 47}
Cjk == {<<33529>>, <<33529, 26524>>}
(* Longer keys, "aba", "abb" and "ab/": they give the trie inner nodes     *)
(* with two children below an inner node.                                  *)
Long == {<<97, 98, 97>>, <<97, 98, 98>>, <<97, 98, 47>>}
Runes == Alphabet \cup {33529, 26524} \cup {nul}

Metas == {1, 2}
NoMeta == 0          \* the zero value of T
Nil == <<-1>>        \* the nil pointer: no address contains -1
EmptyMap == [r \in {} |-> Nil]

StringsUpTo(n) == UNION {[1..k -> Alphabet] : k \in 0..n}
Strings == StringsUpTo(MaxLen) \cup Long \cup Cjk
Patterns == StringsUpTo(MaxPat) \cup Long \cup Cjk

(* uint64(1) << uint64(r-'a'): r-'a' is an int32; a negative one converts  *)
(* to a count of 2^64+(r-'a'), and a shift by 64 or more gives 0.          *)
shl1(r) ==
    LET d == r - 97
    IN  IF d >= 0 /\ d < 64 THEN {d} ELSE {}

(* maskruneslice that stops after the first rune. *)
maskFirstRune(rs) == IF Len(rs) = 0 THEN {} ELSE shl1(rs[1])

maskruneslice(rs) == UNION {shl1(rs[i]) : i \in 1..Len(rs)}

(* &node[T]{...}: the fields of a node. *)
mknode(val, path, mask, term, meta, parent, depth) ==
    [val |-> val, path |-> path, term |-> term, depth |-> depth,
     meta |-> meta, mask |-> mask, parent |-> parent,
     children |-> EmptyMap, termCount |-> 0]

RootAddr == <<>>
emptyRoot == mknode(0, <<>>, {}, FALSE, NoMeta, Nil, 0)

(* newChild that does not set the parent of the new node. *)
newChildNoParent(ns, n, val, path, bitmask, meta, term) ==
    LET node == Append(n, val)
        ns1  == [ns EXCEPT ![n].children = (val :> node) @@ @,
                           ![n].mask = @ \cup bitmask]
    IN  [ns |-> (node :> mknode(val, path, bitmask, term, meta, Nil,
                                ns[n].depth + 1)) @@ ns1,
         nd |-> node]

(* n.newChild(val, path, bitmask, meta, term): the heap afterwards and the *)
(* new node.                                                               *)
newChild(ns, n, val, path, bitmask, meta, term) ==
    LET node == Append(n, val)
        ns1  == [ns EXCEPT ![n].children = (val :> node) @@ @,
                           ![n].mask = @ \cup bitmask]
    IN  [ns |-> (node :> mknode(val, path, bitmask, term, meta, n,
                                ns[n].depth + 1)) @@ ns1,
         nd |-> node]

(* newEmptyChild with a fresh child map in place of the added entry. *)
newEmptyChildAlone(ns, n, val, path, bitmask) ==
    LET node == Append(n, val)
        ns1  == [ns EXCEPT ![n].children = (val :> node),
                           ![n].mask = @ \cup bitmask]
    IN  [ns |-> (node :> mknode(val, path, bitmask, FALSE, NoMeta, n,
                                ns[n].depth + 1)) @@ ns1,
         nd |-> node]

(* newEmptyChild with parent: node for parent: n. *)
newEmptyChildOwnParent(ns, n, val, path, bitmask) ==
    LET node == Append(n, val)
        ns1  == [ns EXCEPT ![n].children = (val :> node) @@ @,
                           ![n].mask = @ \cup bitmask]
    IN  [ns |-> (node :> mknode(val, path, bitmask, FALSE, NoMeta, node,
                                ns[n].depth + 1)) @@ ns1,
         nd |-> node]

newEmptyChild(ns, n, val, path, bitmask) ==
    LET node == Append(n, val)
        ns1  == [ns EXCEPT ![n].children = (val :> node) @@ @,
                           ![n].mask = @ \cup bitmask]
    IN  [ns |-> (node :> mknode(val, path, bitmask, FALSE, NoMeta, n,
                                ns[n].depth + 1)) @@ ns1,
         nd |-> node]

(* The loop of Add over runes[i..]. *)
RECURSIVE AddLoop(_, _, _, _)
AddLoop(ns, nd, runes, i) ==
    IF i > Len(runes) THEN [ns |-> ns, nd |-> nd]
    ELSE LET r == runes[i]
             bitmask == maskruneslice(SubSeq(runes, i, Len(runes)))
             st == IF r \in DOMAIN ns[nd].children
                   THEN LET n == ns[nd].children[r]
                        IN  [ns |-> [ns EXCEPT ![n].mask = @ \cup bitmask],
                             nd |-> n]
                   ELSE newEmptyChild(ns, nd, r, <<>>, bitmask)
             ns2 == [st.ns EXCEPT ![st.nd].termCount = @ + 1]
         IN  AddLoop(ns2, st.nd, runes, i + 1)

(* The heap and the returned node of t.Add(key, meta). *)
AddResult(ns, rt, key, meta) ==
    LET ns0 == [ns EXCEPT ![rt].mask = @ \cup maskruneslice(key),
                          ![rt].termCount = @ + 1]
        lp  == AddLoop(ns0, rt, key, 1)
    IN  newChild(lp.ns, lp.nd, nul, key, {}, meta, TRUE)

(* findNode that returns the last node of the path it could follow. *)
RECURSIVE findNodeSoFar(_, _, _)
findNodeSoFar(ns, nd, runes) ==
    IF nd = Nil THEN Nil
    ELSE IF Len(runes) = 0 THEN nd
    ELSE IF runes[1] \notin DOMAIN ns[nd].children THEN nd
    ELSE findNodeSoFar(ns, ns[nd].children[runes[1]], Tail(runes))

RECURSIVE findNode(_, _, _)
findNode(ns, nd, runes) ==
    IF nd = Nil THEN Nil
    ELSE IF Len(runes) = 0 THEN nd
    ELSE IF runes[1] \notin DOMAIN ns[nd].children THEN Nil
    ELSE findNode(ns, ns[nd].children[runes[1]], Tail(runes))

IsPrefix(p, s) == Len(p) <= Len(s) /\ SubSeq(s, 1, Len(p)) = p

(* maskUp that leaves the masks of the children out. *)
RECURSIVE maskUpOwnBit(_, _)
maskUpOwnBit(ns, nd) ==
    IF nd = Nil THEN ns
    ELSE maskUpOwnBit([ns EXCEPT ![nd].mask = shl1(ns[nd].val)], ns[nd].parent)

(* The loop of removeChild that recomputes the masks from nd up to the root. *)
RECURSIVE maskUp(_, _)
maskUp(ns, nd) ==
    IF nd = Nil THEN ns
    ELSE LET m == shl1(ns[nd].val) \cup
                  UNION {ns[ns[nd].children[c]].mask : c \in DOMAIN ns[nd].children}
         IN  maskUp([ns EXCEPT ![nd].mask = m], ns[nd].parent)

(* n.removeChild(r): the nodes below the deleted entry are unreachable and *)
(* leave the heap.                                                         *)
removeChild(ns, n, r) ==
    LET gone == Append(n, r)
        keep == {a \in DOMAIN ns : ~IsPrefix(gone, a)}
        ns1  == [a \in keep |->
                   IF a = n
                   THEN [ns[a] EXCEPT !.children =
                           [c \in DOMAIN ns[n].children \ {r} |-> ns[n].children[c]]]
                   ELSE ns[a]]
    IN  maskUp(ns1, ns1[n].parent)

(* The loop of Remove with len(n.children) > 0 for len(n.children) > 1. *)
RECURSIVE RemoveLoopAnyChild(_, _, _, _)
RemoveLoopAnyChild(ns, rt, n, rs) ==
    IF n = Nil THEN [ns |-> ns, root |-> rt, panic |-> FALSE]
    ELSE IF n = rt
         THEN [ns |-> (RootAddr :> emptyRoot), root |-> RootAddr, panic |-> FALSE]
    ELSE IF Cardinality(DOMAIN ns[n].children) > 0
         THEN IF ns[n].depth < 0 \/ ns[n].depth >= Len(rs)
              THEN [ns |-> ns, root |-> rt, panic |-> TRUE]
              ELSE [ns |-> removeChild(ns, n, rs[ns[n].depth + 1]),
                    root |-> rt, panic |-> FALSE]
    ELSE RemoveLoopAnyChild(ns, rt, ns[n].parent, rs)

(* The loop of Remove with rs[n.depth+1] for rs[n.depth]. *)
RECURSIVE RemoveLoopNextRune(_, _, _, _)
RemoveLoopNextRune(ns, rt, n, rs) ==
    IF n = Nil THEN [ns |-> ns, root |-> rt, panic |-> FALSE]
    ELSE IF n = rt
         THEN [ns |-> (RootAddr :> emptyRoot), root |-> RootAddr, panic |-> FALSE]
    ELSE IF Cardinality(DOMAIN ns[n].children) > 1
         THEN IF ns[n].depth + 1 < 0 \/ ns[n].depth + 1 >= Len(rs)
              THEN [ns |-> ns, root |-> rt, panic |-> TRUE]
              ELSE [ns |-> removeChild(ns, n, rs[ns[n].depth + 2]),
                    root |-> rt, panic |-> FALSE]
    ELSE RemoveLoopNextRune(ns, rt, ns[n].parent, rs)

(* The loop of Remove from n upwards: the heap and t.root afterwards.      *)
(* rs[n.depth] with an index out of range panics and leaves the loop.      *)
RECURSIVE RemoveLoop(_, _, _, _)
RemoveLoop(ns, rt, n, rs) ==
    IF n = Nil THEN [ns |-> ns, root |-> rt, panic |-> FALSE]
    ELSE IF n = rt
         THEN [ns |-> (RootAddr :> emptyRoot), root |-> RootAddr, panic |-> FALSE]
    ELSE IF Cardinality(DOMAIN ns[n].children) > 1
         THEN IF ns[n].depth < 0 \/ ns[n].depth >= Len(rs)
              THEN [ns |-> ns, root |-> rt, panic |-> TRUE]
              ELSE [ns |-> removeChild(ns, n, rs[ns[n].depth + 1]),
                    root |-> rt, panic |-> FALSE]
    ELSE RemoveLoop(ns, rt, ns[n].parent, rs)

(* The walk of the loop of Remove from n upwards, for at most fuel steps:  *)
(* the nodes n it looked at and whether it came to its end.                *)
RECURSIVE RemoveWalk(_, _, _, _, _)
RemoveWalk(ns, rt, n, visited, fuel) ==
    IF n = Nil THEN [visited |-> visited, done |-> TRUE]
    ELSE IF fuel = 0 THEN [visited |-> visited, done |-> FALSE]
    ELSE IF n = rt \/ Cardinality(DOMAIN ns[n].children) > 1
         THEN [visited |-> Append(visited, n), done |-> TRUE]
    ELSE RemoveWalk(ns, rt, ns[n].parent, Append(visited, n), fuel - 1)

(* The walk of the loop of removeChild from nd upwards, for at most fuel   *)
(* steps: the nodes whose mask it recomputed and whether it came to its    *)
(* end.                                                                    *)
RECURSIVE maskWalk(_, _, _, _)
maskWalk(ns, nd, visited, fuel) ==
    IF nd = Nil THEN [visited |-> visited, done |-> TRUE]
    ELSE IF fuel = 0 THEN [visited |-> visited, done |-> FALSE]
    ELSE maskWalk(ns, ns[nd].parent, Append(visited, nd), fuel - 1)

(* t.Remove(key) from the lookup on: the heap and t.root afterwards,       *)
(* whether a node was found for the key and whether the call panicked.     *)
RemoveResult(ns, rt, key) ==
    LET nd == findNode(ns, rt, key)
    IN  IF nd = Nil
        THEN [ns |-> ns, root |-> rt, found |-> FALSE, panic |-> FALSE]
        ELSE LET r == RemoveLoop(ns, rt, ns[nd].parent, key)
             IN  [ns |-> r.ns, root |-> r.root, found |-> TRUE, panic |-> r.panic]

RECURSIVE Ascending(_)
Ascending(S) ==
    IF S = {} THEN <<>>
    ELSE LET m == CHOOSE x \in S : \A y \in S : x <= y
         IN  <<m>> \o Ascending(S \ {m})

Reverse(s) == [i \in 1..Len(s) |-> s[Len(s) + 1 - i]]

(* The orders in which the model lets a range over a map visit its keys. *)
Orders == {Ascending(Runes), Reverse(Ascending(Runes))}

(* The children of n in the order in which a range over n.children visits  *)
(* them: Go leaves the order open, ord is the order of one run, a sequence  *)
(* of all runes.                                                            *)
ChildSeq(ns, n, ord) ==
    LET InMap(r) == r \in DOMAIN ns[n].children
        rs == SelectSeq(ord, InMap)
    IN  [j \in 1..Len(rs) |-> ns[n].children[rs[j]]]

(* The loop of collect: nds is the stack `nodes`, keys the result so far. *)
RECURSIVE collectLoop(_, _, _, _)
collectLoop(ns, nds, keys, ord) ==
    IF Len(nds) = 0 THEN keys
    ELSE LET i == Len(nds)
             n == nds[i]
             nds1 == SubSeq(nds, 1, i - 1) \o ChildSeq(ns, n, ord)
         IN  collectLoop(ns, nds1,
                         IF ns[n].term THEN Append(keys, ns[n].path) ELSE keys,
                         ord)

collect(ns, nd, ord) == collectLoop(ns, <<nd>>, <<>>, ord)

(* The loop of collect, run for at most fuel iterations: the nodes it took *)
(* from the stack `nodes`, in order, and whether it came to its end.       *)
RECURSIVE collectVisits(_, _, _, _, _)
collectVisits(ns, nds, ord, visited, fuel) ==
    IF Len(nds) = 0 THEN [visited |-> visited, done |-> TRUE]
    ELSE IF fuel = 0 THEN [visited |-> visited, done |-> FALSE]
    ELSE LET i == Len(nds)
             n == nds[i]
             nds1 == SubSeq(nds, 1, i - 1) \o ChildSeq(ns, n, ord)
         IN  collectVisits(ns, nds1, ord, Append(visited, n), fuel - 1)

(* The loop of fuzzycollect: potential is the stack of potentialSubtree.   *)
(* The result is the keys and whether the loop panicked: partial[p.idx:]   *)
(* and partial[p.idx] panic when the index is out of range.                *)
RECURSIVE fuzzyLoop(_, _, _, _, _)
fuzzyLoop(ns, potential, partial, keys, ord) ==
    IF Len(potential) = 0 THEN [keys |-> keys, panic |-> FALSE]
    ELSE LET i == Len(potential)
             p == potential[i]
             rest == SubSeq(potential, 1, i - 1)
             m == maskruneslice(SubSeq(partial, p.idx + 1, Len(partial)))
         IN  IF p.idx < 0 \/ p.idx > Len(partial)
             THEN [keys |-> keys, panic |-> TRUE]
             ELSE IF (ns[p.node].mask \cap m) # m
             THEN fuzzyLoop(ns, rest, partial, keys, ord)
             ELSE IF p.idx >= Len(partial)
             THEN [keys |-> keys, panic |-> TRUE]
             ELSE LET idx == IF ns[p.node].val = partial[p.idx + 1]
                             THEN p.idx + 1 ELSE p.idx
                  IN  IF idx # p.idx /\ idx = Len(partial)
                      THEN fuzzyLoop(ns, rest, partial,
                                     keys \o collect(ns, p.node, ord), ord)
                      ELSE LET cs == ChildSeq(ns, p.node, ord)
                           IN  fuzzyLoop(ns,
                                   rest \o [j \in 1..Len(cs) |->
                                              [idx |-> idx, node |-> cs[j]]],
                                   partial, keys, ord)

(* The loop of fuzzycollect, run for at most fuel iterations: the nodes it *)
(* took from the stack `potential`, the nodes it called collect on, and    *)
(* whether it came to its end.                                             *)
RECURSIVE fuzzyVisits(_, _, _, _, _, _, _)
fuzzyVisits(ns, potential, partial, ord, visited, collected, fuel) ==
    IF Len(potential) = 0
    THEN [visited |-> visited, collected |-> collected, done |-> TRUE]
    ELSE IF fuel = 0
    THEN [visited |-> visited, collected |-> collected, done |-> FALSE]
    ELSE LET i == Len(potential)
             p == potential[i]
             rest == SubSeq(potential, 1, i - 1)
             m == maskruneslice(SubSeq(partial, p.idx + 1, Len(partial)))
             vis == Append(visited, p.node)
         IN  IF (ns[p.node].mask \cap m) # m
             THEN fuzzyVisits(ns, rest, partial, ord, vis, collected, fuel - 1)
             ELSE LET idx == IF ns[p.node].val = partial[p.idx + 1]
                             THEN p.idx + 1 ELSE p.idx
                  IN  IF idx # p.idx /\ idx = Len(partial)
                      THEN fuzzyVisits(ns, rest, partial, ord, vis,
                                       Append(collected, p.node), fuel - 1)
                      ELSE LET cs == ChildSeq(ns, p.node, ord)
                           IN  fuzzyVisits(ns,
                                   rest \o [j \in 1..Len(cs) |->
                                              [idx |-> idx, node |-> cs[j]]],
                                   partial, ord, vis, collected, fuel - 1)

(* fuzzycollect for which the empty pattern matches nothing. *)
fuzzycollectNonEmpty(ns, nd, partial, ord) ==
    IF Len(partial) = 0 THEN [keys |-> <<>>, panic |-> FALSE]
    ELSE fuzzyLoop(ns, <<[idx |-> 0, node |-> nd]>>, partial, <<>>, ord)

fuzzycollect(ns, nd, partial, ord) ==
    IF Len(partial) = 0 THEN [keys |-> collect(ns, nd, ord), panic |-> FALSE]
    ELSE fuzzyLoop(ns, <<[idx |-> 0, node |-> nd]>>, partial, <<>>, ord)

(* The number of bytes of the UTF-8 encoding of a rune. *)
utf8len(r) ==
    IF r < 128 THEN 1 ELSE IF r < 2048 THEN 2 ELSE IF r < 65536 THEN 3 ELSE 4

(* len(s) of a Go string: the number of bytes of its UTF-8 encoding. *)
RECURSIVE ByteLen(_)
ByteLen(s) == IF s = <<>> THEN 0 ELSE utf8len(Head(s)) + ByteLen(Tail(s))

(* insertByKeys that lets a key take the place of a key of its length. *)
RECURSIVE insertByKeysOverwrite(_, _)
insertByKeysOverwrite(sorted, k) ==
    IF sorted = <<>> THEN <<k>>
    ELSE IF ByteLen(k) < ByteLen(sorted[Len(sorted)])
         THEN Append(insertByKeysOverwrite(SubSeq(sorted, 1, Len(sorted) - 1), k),
                     sorted[Len(sorted)])
         ELSE IF ByteLen(k) = ByteLen(sorted[Len(sorted)])
         THEN Append(SubSeq(sorted, 1, Len(sorted) - 1), k)
         ELSE Append(sorted, k)

(* sort.Sort(ByKeys(keys)): Less is len(a[i]) < len(a[j]).  An insertion    *)
(* sort, which is what sort.Sort does for fewer than 12 elements.          *)
RECURSIVE insertByKeys(_, _)
insertByKeys(sorted, k) ==
    IF sorted = <<>> THEN <<k>>
    ELSE IF ByteLen(k) < ByteLen(sorted[Len(sorted)])
         THEN Append(insertByKeys(SubSeq(sorted, 1, Len(sorted) - 1), k),
                     sorted[Len(sorted)])
         ELSE Append(sorted, k)

RECURSIVE sortByKeys(_)
sortByKeys(keys) ==
    IF keys = <<>> THEN <<>>
    ELSE insertByKeys(sortByKeys(SubSeq(keys, 1, Len(keys) - 1)), keys[Len(keys)])

Callers == 1..NumCallers
NoCall == [name |-> "none", key |-> <<>>, meta |-> NoMeta]

(* The read operations, as functions of the state.  A result that is a     *)
(* node and a flag is the record [nd, ok].                                 *)
(* Find without the look at the terminal entry below the node of the key. *)
FindPath(key) ==
    LET nd == findNode(nodes, root, key)
    IN  IF nd = Nil THEN [nd |-> Nil, ok |-> FALSE]
        ELSE [nd |-> nd, ok |-> TRUE]

Find(key) ==
    LET nd == findNode(nodes, root, key)
    IN  IF nd = Nil THEN [nd |-> Nil, ok |-> FALSE]
        ELSE IF nul \notin DOMAIN nodes[nd].children
                  \/ ~nodes[nodes[nd].children[nul]].term
             THEN [nd |-> Nil, ok |-> FALSE]
        ELSE [nd |-> nodes[nd].children[nul], ok |-> TRUE]

HasKeysWithPrefix(key) == findNode(nodes, root, key) # Nil

(* PrefixSearch and Keys on the trie with heap ns, root rt and size sz. *)
PrefixSearchOf(ns, rt, pre, ord) ==
    LET nd == findNode(ns, rt, pre)
    IN  IF nd = Nil THEN <<>> ELSE collect(ns, nd, ord)

KeysOf(ns, rt, sz, ord) ==
    IF sz = 0 THEN <<>> ELSE PrefixSearchOf(ns, rt, <<>>, ord)

PrefixSearch(pre, ord) == PrefixSearchOf(nodes, root, pre, ord)

Keys(ord) == KeysOf(nodes, root, size, ord)

FuzzySearch(pre, ord) == sortByKeys(fuzzycollect(nodes, root, pre, ord).keys)

(* New() *)
Init ==
    /\ nodes = (RootAddr :> emptyRoot)
    /\ root = RootAddr
    /\ size = 0
    /\ added = {}
    /\ calls = 0
    /\ pc = [p \in Callers |-> "idle"]
    /\ op = [p \in Callers |-> NoCall]
    /\ wmu = 0
    /\ readers = 0

(* t.size++, the first access of Add to the trie. *)
AddSize == size' = size + 1

(* The rest of Add: the masks, the path of the key and its terminal entry. *)
AddTree(key, meta) ==
    /\ nodes' = AddResult(nodes, root, key, meta).ns
    /\ added' = added \cup {key}

(* What Add does to the trie between Lock and Unlock. *)
AddBody(key, meta) ==
    /\ AddSize
    /\ AddTree(key, meta)
    /\ UNCHANGED root

(* What Remove does to the trie between Lock and Unlock. *)
RemoveBody(key) ==
    /\ LET r == RemoveResult(nodes, root, key)
       IN  /\ size' = IF r.found THEN size - 1 ELSE size
           /\ nodes' = r.ns
           /\ root' = r.root
    /\ UNCHANGED added

(* A call of Add or Remove by a single caller: the lock is free before     *)
(* and after it.                                                           *)
Add(key, meta) ==
    /\ calls < MaxCalls
    /\ calls' = calls + 1
    /\ AddBody(key, meta)
    /\ UNCHANGED lockvars

Remove(key) ==
    /\ calls < MaxCalls
    /\ calls' = calls + 1
    /\ RemoveBody(key)
    /\ UNCHANGED lockvars

Next ==
    \/ \E key \in Strings, meta \in Metas : Add(key, meta)
    \/ \E key \in Strings : Remove(key)

Spec == Init /\ [][Next]_vars

(* A fresh trie to which keys are only added. *)
NextAdd == \E key \in Strings, meta \in Metas : Add(key, meta)

SpecAdd == Init /\ [][NextAdd]_vars

(***************************************************************************)
(* Concurrent callers.  Trie.mu is a sync.RWMutex: Lock announces the      *)
(* writer, which from then on keeps new readers out, and then waits for    *)
(* the read locks that are held to be released.  wmu is the writer that    *)
(* has announced itself and not yet unlocked, readers counts the read      *)
(* locks held.  Between Lock and Unlock Add takes two steps, t.size++ and  *)
(* the insertion, and Remove two, the lookup of the key and the removal;   *)
(* a reader reads the trie in one step.                                    *)
(***************************************************************************)
Writes == {"Add", "Remove"}
Reads == {"Find", "HasKeysWithPrefix", "PrefixSearch", "FuzzySearch", "Keys"}
CallKeys == {<<>>, <<97>>}

(* A caller starts a call. *)
Call(p, name, key) ==
    /\ calls < MaxCalls
    /\ pc[p] = "idle"
    /\ calls' = calls + 1
    /\ op' = [op EXCEPT ![p] = [name |-> name, key |-> key, meta |-> 1]]
    /\ pc' = [pc EXCEPT ![p] = IF name \in Writes THEN "Lock" ELSE "RLock"]
    /\ UNCHANGED <<trievars, wmu, readers>>

(* t.mu.Lock(), first half: the writer announces itself. *)
LockAnnounce(p) ==
    /\ pc[p] = "Lock"
    /\ wmu = 0
    /\ wmu' = p
    /\ pc' = [pc EXCEPT ![p] = "LockWait"]
    /\ UNCHANGED <<trievars, calls, op, readers>>

(* Lock that does not wait for the read locks to be released. *)
LockAcquireAtOnce(p) ==
    /\ pc[p] = "LockWait"
    /\ pc' = [pc EXCEPT ![p] = "locked"]
    /\ UNCHANGED <<trievars, calls, op, wmu, readers>>

(* t.mu.Lock(), second half: the read locks have been released. *)
LockAcquire(p) ==
    /\ pc[p] = "LockWait"
    /\ readers = 0
    /\ pc' = [pc EXCEPT ![p] = "locked"]
    /\ UNCHANGED <<trievars, calls, op, wmu, readers>>

(* Add holds the lock: t.size++. *)
AddLocked(p) ==
    /\ pc[p] = "locked"
    /\ op[p].name = "Add"
    /\ AddSize
    /\ pc' = [pc EXCEPT ![p] = "inAdd"]
    /\ UNCHANGED <<nodes, root, added, calls, op, wmu, readers>>

(* Add inserts the key and returns. *)
AddInsert(p) ==
    /\ pc[p] = "inAdd"
    /\ AddTree(op[p].key, op[p].meta)
    /\ pc' = [pc EXCEPT ![p] = "Unlock"]
    /\ UNCHANGED <<root, size, calls, op, wmu, readers>>

(* Remove holds the lock: it looks the key up and returns if there is no   *)
(* node for it.                                                            *)
RemoveLocked(p) ==
    /\ pc[p] = "locked"
    /\ op[p].name = "Remove"
    /\ pc' = [pc EXCEPT ![p] =
                IF findNode(nodes, root, op[p].key) = Nil
                THEN "Unlock" ELSE "inRemove"]
    /\ UNCHANGED <<trievars, calls, op, wmu, readers>>

(* Remove updates size, detaches the nodes of the key and returns. *)
RemoveDetach(p) ==
    /\ pc[p] = "inRemove"
    /\ RemoveBody(op[p].key)
    /\ pc' = [pc EXCEPT ![p] = "Unlock"]
    /\ UNCHANGED <<calls, op, wmu, readers>>

(* defer t.mu.Unlock() *)
Unlock(p) ==
    /\ pc[p] = "Unlock"
    /\ wmu' = 0
    /\ pc' = [pc EXCEPT ![p] = "idle"]
    /\ op' = [op EXCEPT ![p] = NoCall]
    /\ UNCHANGED <<trievars, calls, readers>>

(* t.mu.RLock() of the call itself. *)
RLock(p) ==
    /\ pc[p] = "RLock"
    /\ wmu = 0
    /\ readers' = readers + 1
    /\ pc' = [pc EXCEPT ![p] = "rlocked"]
    /\ UNCHANGED <<trievars, calls, op, wmu>>

(* Find, HasKeysWithPrefix, PrefixSearch, FuzzySearch: read and return. *)
Read(p) ==
    /\ pc[p] = "rlocked"
    /\ op[p].name # "Keys"
    /\ pc' = [pc EXCEPT ![p] = "RUnlock"]
    /\ UNCHANGED <<trievars, calls, op, wmu, readers>>

(* Keys: return at once if size is 0, call t.PrefixSearch("") otherwise. *)
KeysSize(p) ==
    /\ pc[p] = "rlocked"
    /\ op[p].name = "Keys"
    /\ pc' = [pc EXCEPT ![p] = IF size = 0 THEN "RUnlock" ELSE "RLockInner"]
    /\ UNCHANGED <<trievars, calls, op, wmu, readers>>

(* t.mu.RLock() of the PrefixSearch that Keys calls. *)
RLockInner(p) ==
    /\ pc[p] = "RLockInner"
    /\ wmu = 0
    /\ readers' = readers + 1
    /\ pc' = [pc EXCEPT ![p] = "rlockedInner"]
    /\ UNCHANGED <<trievars, calls, op, wmu>>

(* The PrefixSearch that Keys calls reads, unlocks and returns. *)
RUnlockInner(p) ==
    /\ pc[p] = "rlockedInner"
    /\ readers' = readers - 1
    /\ pc' = [pc EXCEPT ![p] = "RUnlock"]
    /\ UNCHANGED <<trievars, calls, op, wmu>>

(* defer t.mu.RUnlock() *)
RUnlock(p) ==
    /\ pc[p] = "RUnlock"
    /\ readers' = readers - 1
    /\ pc' = [pc EXCEPT ![p] = "idle"]
    /\ op' = [op EXCEPT ![p] = NoCall]
    /\ UNCHANGED <<trievars, calls, wmu>>

NextLock ==
    \E p \in Callers :
        \/ \E name \in Writes \cup Reads, key \in CallKeys : Call(p, name, key)
        \/ LockAnnounce(p)
        \/ LockAcquire(p)
        \/ AddLocked(p)
        \/ AddInsert(p)
        \/ RemoveLocked(p)
        \/ RemoveDetach(p)
        \/ Unlock(p)
        \/ RLock(p)
        \/ Read(p)
        \/ KeysSize(p)
        \/ RLockInner(p)
        \/ RUnlockInner(p)
        \/ RUnlock(p)

SpecLock == Init /\ [][NextLock]_vars

(***************************************************************************)
(* Properties.                                                             *)
(***************************************************************************)
ToSet(s) == {s[i] : i \in DOMAIN s}
NoRepeat(s) == Cardinality(ToSet(s)) = Len(s)
Stored(k) == Find(k).ok
StoredKeys == {k \in Strings : Stored(k)}
Payload(k) == nodes[Find(k).nd].meta

RECURSIVE IsSubseq(_, _)
IsSubseq(p, k) ==
    IF Len(p) = 0 THEN TRUE
    ELSE IF Len(k) = 0 THEN FALSE
    ELSE IF p[1] = k[1] THEN IsSubseq(Tail(p), Tail(k))
    ELSE IsSubseq(p, Tail(k))

(* C1: Add(k, p) returns the terminal entry of k carrying p, and a key     *)
(* that Find finds with payload p is still found with payload p after any  *)
(* Add or Remove call on another key.                                      *)
C1_RoundTrip ==
    [][\A k \in Strings :
        /\ \A p \in Metas :
             Add(k, p) =>
               LET h == AddResult(nodes, root, k, p).nd
               IN  /\ nodes'[h].term /\ nodes'[h].path = k /\ nodes'[h].meta = p
                   /\ Find(k)' = [nd |-> h, ok |-> TRUE]
        /\ (/\ Stored(k)
            /\ \E j \in Strings \ {k} :
                 Remove(j) \/ \E p \in Metas : Add(j, p))
           => Stored(k)' /\ Payload(k)' = Payload(k)
       ]_vars

(* C2: Remove(k) of a stored key k leaves every stored key that does not   *)
(* start with k in Keys() and found by Find, and it leaves an empty root   *)
(* only when k was the only stored key.                                    *)
C2_RemoveKeepsUnrelated ==
    [][\A k \in Strings :
        (Stored(k) /\ Remove(k)) =>
          /\ \A j \in StoredKeys :
               ~IsPrefix(k, j) =>
                 Stored(j)' /\ \A ord \in Orders : j \in ToSet(Keys(ord))'
          /\ (DOMAIN nodes[root].children = {})' => StoredKeys = {k}
       ]_vars

(* C3: Remove(k) of a stored key k leaves every longer stored key that     *)
(* starts with k in Keys() and found by Find.                              *)
C3_RemoveKeepsLonger ==
    [][\A k \in Strings :
        (Stored(k) /\ Remove(k)) =>
          \A j \in StoredKeys :
            (IsPrefix(k, j) /\ j # k) =>
              Stored(j)' /\ \A ord \in Orders : j \in ToSet(Keys(ord))'
       ]_vars

(* C4: Remove(k) of a key k that is not stored changes neither the tree    *)
(* nor the result of Keys() nor size.                                      *)
C4_RemoveAbsentNoOp ==
    [][\A k \in Strings :
        (~Stored(k) /\ Remove(k)) =>
          /\ UNCHANGED <<nodes, root, size>>
          /\ \A ord \in Orders : Keys(ord)' = Keys(ord)
       ]_vars

(* C5: after Remove(k) of a stored key k, the empty key included, Find(k)  *)
(* does not find k, and it stays so under every call but an Add of k.      *)
C5_RemovedNotFound ==
    [][\A k \in Strings :
        /\ (Stored(k) /\ Remove(k)) => ~Stored(k)'
        /\ (/\ ~Stored(k)
            /\ \/ \E j \in Strings : Remove(j)
               \/ \E j \in Strings \ {k}, p \in Metas : Add(j, p))
           => ~Stored(k)'
       ]_vars

(* C6: FuzzySearch(p) for a non-empty pattern p returns no key twice and,  *)
(* as a set, exactly the keys of PrefixSearch("") of which p is a          *)
(* subsequence.                                                            *)
C6_FuzzyExact ==
    \A ord \in Orders :
      LET all == ToSet(PrefixSearch(<<>>, ord))
      IN  \A p \in Patterns \ {<<>>} :
            LET r == FuzzySearch(p, ord)
            IN  /\ NoRepeat(r)
                /\ ToSet(r) = {k \in all : IsSubseq(p, k)}

(* A key has been removed by removeChild, which has left a mask with a bit *)
(* too many, and another key is left; a pattern with '/' in it matches a   *)
(* stored key; the mask of the root admits a pattern that no stored key    *)
(* matches; and the mask of an inner node rules out a pattern that the     *)
(* mask of its parent admits.                                              *)
C6_Witness ==
    /\ \E k \in added : ~Stored(k)
    /\ StoredKeys # {}
    /\ \E a \in DOMAIN nodes \ {root} :
         /\ ~nodes[a].term
         /\ nodes[a].mask # shl1(nodes[a].val) \cup
               UNION {nodes[nodes[a].children[c]].mask : c \in DOMAIN nodes[a].children}
    /\ \E p \in Patterns :
         47 \in ToSet(p) /\ \E ord \in Orders : Len(FuzzySearch(p, ord)) > 0
    /\ \E p \in Patterns :
         /\ maskruneslice(p) # {}
         /\ maskruneslice(p) \subseteq nodes[root].mask
         /\ \A ord \in Orders : FuzzySearch(p, ord) = <<>>
    /\ \E p \in Patterns, a \in DOMAIN nodes \ {root} :
         /\ ~nodes[a].term
         /\ maskruneslice(p) \subseteq nodes[nodes[a].parent].mask
         /\ ~(maskruneslice(p) \subseteq nodes[a].mask)

(* C7: on a trie that has only seen Add calls, PrefixSearch(q) returns no  *)
(* key twice and, as a set, exactly the added keys that start with q.      *)
C7_PrefixExact ==
    \A ord \in Orders : \A q \in Patterns :
      LET r == PrefixSearch(q, ord)
      IN  /\ NoRepeat(r)
          /\ ToSet(r) = {k \in added : IsPrefix(q, k)}

(* Keys with non-ASCII runes and ASCII keys are stored, a non-ASCII prefix *)
(* selects two of them and another prefix selects nothing.                 *)
C7_Witness ==
    /\ Cjk \subseteq added
    /\ \E k \in added : k \notin Cjk
    /\ \E ord \in Orders : ToSet(PrefixSearch(<<33529>>, ord)) = Cjk
    /\ \E q \in Patterns, ord \in Orders : PrefixSearch(q, ord) = <<>>

(* C8: on a trie that has only seen Add calls, Keys() returns exactly the  *)
(* added keys as a set.                                                    *)
C8_KeysAreAdded ==
    \A ord \in Orders : ToSet(Keys(ord)) = added

(* Three different keys have been added, one a prefix of another. *)
C8_Witness ==
    /\ Cardinality(added) = 3
    /\ \E j, k \in added : j # k /\ IsPrefix(j, k)
    /\ \A ord \in Orders : Len(Keys(ord)) = 3

(* C9: in every state Keys() returns the same set of keys as               *)
(* PrefixSearch("").                                                       *)
C9_KeysIsPrefixSearch ==
    \A ord \in Orders : ToSet(Keys(ord)) = ToSet(PrefixSearch(<<>>, ord))

(* A caller that is at a Lock or an RLock which the lock does not grant. *)
WaitingOnLock(p) ==
    \/ pc[p] = "Lock" /\ wmu # 0
    \/ pc[p] = "LockWait" /\ readers # 0
    \/ pc[p] \in {"RLock", "RLockInner"} /\ wmu # 0

(* C10: no call blocks forever: whenever a caller waits on the lock, some  *)
(* caller is inside a call and not waiting, so that never is every call in *)
(* progress waiting on the lock.                                           *)
C10_NoCallBlocksForever ==
    (\E p \in Callers : WaitingOnLock(p))
        => \E q \in Callers : pc[q] # "idle" /\ ~WaitingOnLock(q)

(* A caller that holds the write lock, and one that holds a read lock. *)
HoldsLock(p) == pc[p] \in {"locked", "inAdd", "inRemove", "Unlock"}
HoldsRLock(p) == pc[p] \in {"rlocked", "RLockInner", "rlockedInner", "RUnlock"}

(* C11: while an Add or a Remove is between taking and releasing the lock, *)
(* and so between its first and its last access to the trie, no other call *)
(* is between taking and releasing the lock or a read lock: a writer       *)
(* overlaps nobody and readers overlap only readers.                       *)
C11_WriterExcludesAll ==
    \A p \in Callers :
        HoldsLock(p) =>
            \A q \in Callers \ {p} : ~HoldsLock(q) /\ ~HoldsRLock(q)

(* An Add has incremented size and not yet inserted its key, a Keys call   *)
(* of another caller waits for the lock, and the trie holds a key.         *)
C11_Witness ==
    \E p, q \in Callers :
        /\ pc[p] = "inAdd"
        /\ pc[q] = "RLock" /\ op[q].name = "Keys"
        /\ added # {}

(* C12: in every state and for every string q, the empty one included,     *)
(* HasKeysWithPrefix(q) is true if and only if a stored key starts with q. *)
C12_HasKeysWithPrefixExact ==
    \A q \in Patterns :
        HasKeysWithPrefix(q) <=> \E k \in StoredKeys : IsPrefix(q, k)

(* C13: when the trie stores exactly one key k, Remove(k) leaves Keys()    *)
(* empty, and an Add(k2, p) that follows it, for any key k2, leaves a trie *)
(* whose Keys() is exactly {k2} and in which Find finds k2.                *)
C13_ReinsertAfterRemoval ==
    [][\A k \in Strings :
        (StoredKeys = {k} /\ Remove(k)) =>
          /\ \A ord \in Orders : Keys(ord)' = <<>>
          /\ \A k2 \in Strings, p \in Metas, ord \in Orders :
               LET r == AddResult(nodes', root', k2, p)
                   keys == KeysOf(r.ns, root', size' + 1, ord)
                   nd == findNode(r.ns, root', k2)
               IN  /\ ToSet(keys) = {k2}
                   /\ nd # Nil
                   /\ nul \in DOMAIN r.ns[nd].children
                   /\ r.ns[r.ns[nd].children[nul]].term
       ]_vars

(* The keys of the terminal entries of the tree. *)
TerminalKeys == {nodes[a].path : a \in {b \in DOMAIN nodes : nodes[b].term}}

(* C14: Find(k) returns (nil, false) for every k that is not the key of a  *)
(* terminal entry, and when it returns true the node it returns is the     *)
(* terminal entry that hangs directly off the end of the path of k.        *)
C14_FindOnlyStored ==
    \A k \in Patterns :
        LET f == Find(k)
        IN  /\ f.ok <=> k \in TerminalKeys
            /\ ~f.ok => f.nd = Nil
            /\ f.ok => /\ f.nd = Append(k, nul)
                       /\ nodes[f.nd].term
                       /\ nodes[f.nd].path = k
                       /\ nodes[f.nd].parent = findNode(nodes, root, k)

(* Two stored keys share a prefix of one rune or more that is not stored   *)
(* itself, so that Find follows its whole path and then fails, and Find   *)
(* finds a stored key that is a prefix of another.                         *)
C14_Witness ==
    /\ \E k \in Patterns \ {<<>>} :
         /\ findNode(nodes, root, k) # Nil
         /\ ~Find(k).ok
         /\ \E i, j \in TerminalKeys : i # j /\ IsPrefix(k, i) /\ IsPrefix(k, j)
    /\ \E k, j \in TerminalKeys :
         k # j /\ IsPrefix(k, j) /\ Find(k).ok

(* C15: the list that FuzzySearch returns is in the order of non-          *)
(* decreasing key length, the length of a key being its number of runes.   *)
C15_FuzzySortedByRunes ==
    \A ord \in Orders : \A p \in Patterns :
        LET r == FuzzySearch(p, ord)
        IN  \A i, j \in 1..Len(r) : i < j => Len(r[i]) <= Len(r[j])

(* C16: in every state FuzzySearch("") returns the same set of keys as     *)
(* PrefixSearch(""), and on a trie without keys Keys(), PrefixSearch("")    *)
(* and FuzzySearch("") are all empty.                                      *)
C16_EmptyPatternMatchesAll ==
    \A o1, o2 \in Orders :
        /\ ToSet(FuzzySearch(<<>>, o1)) = ToSet(PrefixSearch(<<>>, o2))
        /\ TerminalKeys = {} =>
              /\ Keys(o1) = <<>>
              /\ PrefixSearch(<<>>, o1) = <<>>
              /\ FuzzySearch(<<>>, o1) = <<>>

(* The trie holds three keys, one of them not ASCII and one the empty key, *)
(* and FuzzySearch("") returns the three.                                  *)
C16_Witness ==
    /\ Cardinality(TerminalKeys) = 3
    /\ <<>> \in TerminalKeys
    /\ TerminalKeys \cap Cjk # {}
    /\ \A ord \in Orders : ToSet(FuzzySearch(<<>>, ord)) = TerminalKeys

(* C17: in every state no call panics, whatever its key or pattern: the    *)
(* index rs[n.depth] of Remove and the indexes partial[p.idx:] and         *)
(* partial[p.idx] of fuzzycollect are in range, the capacity nd.termCount  *)
(* that collect asks for is not negative, and a key or prefix without a    *)
(* path gives found = false, false and an empty list.                      *)
C17_NoRuntimeFailure ==
    /\ \A k \in Strings : ~RemoveResult(nodes, root, k).panic
    /\ \A p \in Patterns, ord \in Orders : ~fuzzycollect(nodes, root, p, ord).panic
    /\ \A a \in DOMAIN nodes : nodes[a].termCount >= 0
    /\ \A q \in Patterns :
         findNode(nodes, root, q) = Nil =>
            /\ Find(q) = [nd |-> Nil, ok |-> FALSE]
            /\ ~HasKeysWithPrefix(q)
            /\ \A ord \in Orders : PrefixSearch(q, ord) = <<>>

(* The mask that the mask of a node is when it is exact. *)
ExactMask(a) ==
    shl1(nodes[a].val) \cup
        UNION {nodes[nodes[a].children[c]].mask : c \in DOMAIN nodes[a].children}

(* A Remove has detached a key with removeChild(rs[1]) from a node of      *)
(* depth 1, which it has left with a bit too many in its mask, and another *)
(* key is left; a pattern of two runes matches a key with its last rune;   *)
(* and a key has no path.                                                  *)
C17_Witness ==
    /\ \E k \in added : ~Stored(k)
    /\ StoredKeys # {}
    /\ \E a \in DOMAIN nodes :
         nodes[a].depth = 1 /\ nodes[a].mask # ExactMask(a)
    /\ \E p \in Patterns, ord \in Orders :
         Len(p) = 2 /\ FuzzySearch(p, ord) # <<>>
    /\ \E q \in Patterns : findNode(nodes, root, q) = Nil

(* C18: in every state the mask of every node but the root is the union of *)
(* the bit of its own rune and the masks of its children; so it is, after  *)
(* a Remove, for the node that lost a child and for its ancestors.         *)
C18_ExactMask ==
    \A a \in DOMAIN nodes \ {root} : nodes[a].mask = ExactMask(a)

(* The bit of a rune in a mask: 1 << (c - 'a') when 0 <= c - 'a' < 64, the *)
(* empty mask otherwise.                                                   *)
CodecBit(c) == IF 0 <= c - 97 /\ c - 97 < 64 THEN {c - 97} ELSE {}

(* C19: in every state, for every stored key k and every node n on the     *)
(* path of k, the terminal entry and the root included, the mask of n      *)
(* contains the bit of the rune of n, unless n is the root, and the bit of *)
(* every rune of k below n.                                                *)
C19_NoFalseNegative ==
    \A k \in TerminalKeys :
        /\ \A d \in 0..Len(k) :
             LET a == SubSeq(k, 1, d)
             IN  /\ a \in DOMAIN nodes
                 /\ a # root => CodecBit(nodes[a].val) \subseteq nodes[a].mask
                 /\ \A i \in (d + 1)..Len(k) :
                      CodecBit(k[i]) \subseteq nodes[a].mask
        /\ CodecBit(nodes[Append(k, nul)].val) \subseteq nodes[Append(k, nul)].mask

(* A Remove has left a node with a bit too many in its mask, and a key is  *)
(* stored that has a rune with a bit below another rune with a bit and a   *)
(* rune without a bit.                                                     *)
C19_Witness ==
    /\ \E k \in added : k \notin TerminalKeys
    /\ \E a \in DOMAIN nodes \ {root} : nodes[a].mask # ExactMask(a)
    /\ \E k \in TerminalKeys :
         /\ Len(k) = 3
         /\ CodecBit(k[1]) # {} /\ CodecBit(k[2]) # {} /\ CodecBit(k[3]) = {}

(* The number of times k occurs in the list s. *)
Count(s, k) == Cardinality({i \in DOMAIN s : s[i] = k})

(* C20: in every state, after Add(k, p1) followed by Add(k, p2) Find(k)    *)
(* returns the terminal entry of k with the payload p2, k is once in       *)
(* Keys(), in PrefixSearch("") and in PrefixSearch(k), and size is two     *)
(* more than before, each Add having incremented it.                       *)
C20_AddTwice ==
    \A k \in Strings, p1, p2 \in Metas, ord \in Orders :
        LET r1 == AddResult(nodes, root, k, p1)
            r2 == AddResult(r1.ns, root, k, p2)
            sz == (size + 1) + 1
            nd == findNode(r2.ns, root, k)
        IN  /\ nd # Nil
            /\ nul \in DOMAIN r2.ns[nd].children
            /\ r2.ns[nd].children[nul] = r2.nd
            /\ r2.ns[r2.nd].term /\ r2.ns[r2.nd].meta = p2
            /\ Count(KeysOf(r2.ns, root, sz, ord), k) = 1
            /\ Count(PrefixSearchOf(r2.ns, root, <<>>, ord), k) = 1
            /\ Count(PrefixSearchOf(r2.ns, root, k, ord), k) = 1

(* The orders in which the keys of the set S can have been inserted. *)
InsertionOrders(S) ==
    {f \in [1..Cardinality(S) -> S] : \A i, j \in DOMAIN f : f[i] = f[j] => i = j}

(* The position of k in the list s, in which it occurs once. *)
Pos(s, k) == CHOOSE i \in DOMAIN s : s[i] = k

RECURSIVE Ancestor(_, _)
Ancestor(a, n) ==
    IF n = 0 \/ a = Nil THEN a
    ELSE IF a \notin DOMAIN nodes THEN Nil
    ELSE Ancestor(nodes[a].parent, n - 1)

(* C22: in every state, also after Remove has replaced the root, the nodes *)
(* reachable from the root form a tree: the root has depth 0, every other  *)
(* node is in the child map of its parent under its own rune, a child map  *)
(* holds nodes of the tree under their own runes, the depth of a node is   *)
(* the depth of its parent plus one, and the parent references lead from   *)
(* every node to the root in as many steps as its depth, without a cycle.  *)
C22_TreeShape ==
    /\ root \in DOMAIN nodes
    /\ nodes[root].depth = 0
    /\ IsFiniteSet(DOMAIN nodes)
    /\ \A a \in DOMAIN nodes \ {root} :
         LET n == nodes[a]
         IN  /\ n.parent \in DOMAIN nodes
             /\ n.val \in DOMAIN nodes[n.parent].children
             /\ nodes[n.parent].children[n.val] = a
             /\ n.depth = nodes[n.parent].depth + 1
             /\ Ancestor(a, n.depth) = root
             /\ \A i \in 1..n.depth : Ancestor(a, i) # a
    /\ \A a \in DOMAIN nodes : \A c \in DOMAIN nodes[a].children :
         LET b == nodes[a].children[c]
         IN  b \in DOMAIN nodes /\ nodes[b].val = c /\ nodes[b].parent = a

(* Remove has replaced the root, on which fewer Add calls have counted     *)
(* than keys have been added, and an Add since then has built a path of    *)
(* two nodes and a terminal entry below the new root.                      *)
C22_Witness ==
    /\ nodes[root].termCount < Cardinality(added)
    /\ nodes[root].termCount > 0
    /\ \E a \in DOMAIN nodes : nodes[a].depth = 3 /\ nodes[a].term

(* The terminal entries in the subtree of the node a. *)
TerminalsBelow(a) ==
    {b \in DOMAIN nodes :
        nodes[b].term /\ \E i \in 0..nodes[b].depth : Ancestor(b, i) = a}

(* C23: in every state every node without children is a terminal entry,   *)
(* but for the root of a trie that is only its root; a terminal entry has  *)
(* no children; and every other node but the root has in its subtree the   *)
(* terminal entry of a key that Find finds.                                *)
C23_NoDanglingChains ==
    \A a \in DOMAIN nodes :
        /\ DOMAIN nodes[a].children = {} =>
              nodes[a].term \/ (a = root /\ DOMAIN nodes = {root})
        /\ nodes[a].term => DOMAIN nodes[a].children = {}
        /\ (a # root /\ ~nodes[a].term) =>
              \E b \in TerminalsBelow(a) : Find(nodes[b].path).nd = b

(* A Remove has detached the nodes of a key with removeChild and left the  *)
(* node it detached them from, two levels below the root, with one child   *)
(* and a stored key.                                                       *)
C23_Witness ==
    /\ \E k \in added : ~Stored(k)
    /\ \E a \in DOMAIN nodes :
         /\ nodes[a].depth = 2 /\ ~nodes[a].term
         /\ nodes[a].mask # ExactMask(a)
         /\ Cardinality(DOMAIN nodes[a].children) = 1
         /\ TerminalsBelow(a) # {}

(* C24: size is 0 in a trie on which nothing has been called yet, and it  *)
(* is never negative.                                                      *)
C24_SizeNotNegative ==
    /\ calls = 0 => size = 0
    /\ size >= 0

(* The keys that collect appends when it takes the nodes of the list       *)
(* visited from its stack.                                                 *)
TermPaths(visited) ==
    LET IsTerm(a) == nodes[a].term
        t == SelectSeq(visited, IsTerm)
    IN  [i \in 1..Len(t) |-> nodes[t[i]].path]

(* C25: in every state every call comes to its end: from whatever node     *)
(* collect starts and for whatever pattern fuzzycollect runs, the stack is *)
(* empty after at most as many iterations as the tree has nodes, no node   *)
(* having been on it twice, and the walks of Remove and of removeChild     *)
(* from whatever node end after at most as many steps, that of Remove at   *)
(* the root or at a node with two children or more, that of removeChild at *)
(* the root.                                                               *)
C25_CallsTerminate ==
    LET fuel == Cardinality(DOMAIN nodes)
    IN  /\ \A ord \in Orders : \A a \in DOMAIN nodes :
             LET cv == collectVisits(nodes, <<a>>, ord, <<>>, fuel)
             IN  /\ cv.done
                 /\ NoRepeat(cv.visited)
                 /\ TermPaths(cv.visited) = collect(nodes, a, ord)
        /\ \A ord \in Orders : \A p \in Patterns \ {<<>>} :
             LET fv == fuzzyVisits(nodes, <<[idx |-> 0, node |-> root]>>, p, ord,
                                   <<>>, <<>>, fuel)
             IN  /\ fv.done
                 /\ NoRepeat(fv.visited)
                 /\ NoRepeat(fv.collected)
        /\ \A a \in DOMAIN nodes :
             LET w == RemoveWalk(nodes, root, nodes[a].parent, <<>>, fuel)
                 m == maskWalk(nodes, nodes[a].parent, <<>>, fuel)
             IN  /\ w.done /\ NoRepeat(w.visited)
                 /\ w.visited # <<>> =>
                       LET n == w.visited[Len(w.visited)]
                       IN  n = root \/ Cardinality(DOMAIN nodes[n].children) > 1
                 /\ m.done /\ NoRepeat(m.visited)
                 /\ a # root => m.visited[Len(m.visited)] = root

(* A tree of six nodes or more: a fuzzycollect takes four nodes or more    *)
(* from its stack, prunes a subtree and calls collect, and a walk of       *)
(* Remove passes a node with one child and ends at the root.               *)
C25_Witness ==
    LET fuel == Cardinality(DOMAIN nodes)
    IN  /\ fuel >= 6
        /\ \E ord \in Orders, p \in Patterns \ {<<>>} :
             LET fv == fuzzyVisits(nodes, <<[idx |-> 0, node |-> root]>>, p, ord,
                                   <<>>, <<>>, fuel)
             IN  /\ Len(fv.visited) >= 4
                 /\ Len(fv.collected) >= 1
                 /\ Len(fv.visited) < fuel
        /\ \E a \in DOMAIN nodes :
             LET w == RemoveWalk(nodes, root, nodes[a].parent, <<>>, fuel)
             IN  Len(w.visited) = 2 /\ w.visited[2] = root

(* C26: in every state the set of keys that PrefixSearch(q) and that       *)
(* FuzzySearch(p) return is the same for whatever order the children of a  *)
(* node are iterated in, and two keys of different length (in characters)  *)
(* stand in the same order in the lists FuzzySearch(p) returns: only keys  *)
(* of equal length can change places.                                      *)
C26_OrderIndependent ==
    \A o1, o2 \in Orders :
        /\ \A q \in Patterns :
             ToSet(PrefixSearch(q, o1)) = ToSet(PrefixSearch(q, o2))
        /\ \A p \in Patterns :
             LET r1 == FuzzySearch(p, o1)
                 r2 == FuzzySearch(p, o2)
             IN  /\ ToSet(r1) = ToSet(r2)
                 /\ \A k, j \in ToSet(r1) \cap ToSet(r2) :
                       Len(k) # Len(j) =>
                         (Pos(r1, k) < Pos(r1, j) <=> Pos(r2, k) < Pos(r2, j))

====
